---- MODULE Spec2Model ----
(***************************************************************************)
(* Model of OceanViewTimeSeriesReader (src/src/ixdat/readers/oceanview.py). *)
(*                                                                         *)
(* Text is modelled as a sequence of one-character strings, so that the    *)
(* regular expressions, str.split/str.strip and datetime.strptime of the   *)
(* reader are computed character by character, as the code computes them.  *)
(* A float is modelled as a record [s, us] (value s + us/10^6 with         *)
(* 0 <= us < 10^6), or one of the special values NaN, PosInf, NegInf.       *)
(***************************************************************************)
EXTENDS Integers, Sequences, FiniteSets, TLC

\* ------------------------------------------------------------------------
\* Characters and the str methods the reader uses
\* ------------------------------------------------------------------------
DigitSeq == <<"0", "1", "2", "3", "4", "5", "6", "7", "8", "9">>
UpperSeq == <<"A", "B", "C", "D", "E", "F", "G", "H", "I", "J", "K", "L", "M",
              "N", "O", "P", "Q", "R", "S", "T", "U", "V", "W", "X", "Y", "Z">>
LowerSeq == <<"a", "b", "c", "d", "e", "f", "g", "h", "i", "j", "k", "l", "m",
              "n", "o", "p", "q", "r", "s", "t", "u", "v", "w", "x", "y", "z">>

Range(f) == {f[i] : i \in DOMAIN f}

\* \d
Digit == Range(DigitSeq)
\* [A-Z]
Upper == Range(UpperSeq)
Lower == Range(LowerSeq)
\* \w, the word characters that decide \b
WordChar == Upper \cup Lower \cup Digit \cup {"_"}
\* \s, and the characters str.strip() removes
Space == {" ", "\t", "\n", "\r", "\f"}
TAB == "\t"
NL == "\n"

DigitVal(c) == (CHOOSE i \in DOMAIN DigitSeq : DigitSeq[i] = c) - 1

\* str.lower()
LowerChar(c) ==
    IF c \in Upper THEN LowerSeq[CHOOSE i \in DOMAIN UpperSeq : UpperSeq[i] = c]
    ELSE c
Lowered(s) == [i \in 1..Len(s) |-> LowerChar(s[i])]

\* s[a:b] with 1-based inclusive bounds, empty when the slice is empty
Slice(s, a, b) == IF a > b THEN <<>> ELSE SubSeq(s, a, b)
\* s[a:]
From(s, a) == Slice(s, a, Len(s))

\* str.startswith
StartsWith(s, p) == Len(s) >= Len(p) /\ Slice(s, 1, Len(p)) = p

\* number of leading / trailing whitespace characters
RECURSIVE LeadSpace(_, _)
LeadSpace(s, i) ==
    IF i <= Len(s) /\ s[i] \in Space THEN 1 + LeadSpace(s, i + 1) ELSE 0
RECURSIVE TrailSpace(_, _)
TrailSpace(s, i) ==
    IF i >= 1 /\ s[i] \in Space THEN 1 + TrailSpace(s, i - 1) ELSE 0

\* str.strip()
Strip(s) ==
    LET a == LeadSpace(s, 1)
    IN  IF a = Len(s) THEN <<>>
        ELSE Slice(s, a + 1, Len(s) - TrailSpace(s, Len(s)))

\* index of the first occurrence of character c at or after i, 0 if none
RECURSIVE IndexOf(_, _, _)
IndexOf(s, c, i) ==
    IF i > Len(s) THEN 0
    ELSE IF s[i] = c THEN i
    ELSE IndexOf(s, c, i + 1)

\* str.split(c, 1): the pair <<before, after>> of the first c, or <<s>>
Split1(s, c) ==
    LET i == IndexOf(s, c, 1)
    IN  IF i = 0 THEN <<s>> ELSE <<Slice(s, 1, i - 1), From(s, i + 1)>>

\* str.replace(",", ".")
CommaToDot(s) == [i \in 1..Len(s) |-> IF s[i] = "," THEN "." ELSE s[i]]

\* length of the run of characters of class cls starting at i
RECURSIVE RunLen(_, _, _)
RunLen(s, i, cls) ==
    IF i <= Len(s) /\ s[i] \in cls THEN 1 + RunLen(s, i + 1, cls) ELSE 0

\* value of the decimal digits s[a..b]
RECURSIVE DecVal(_, _, _)
DecVal(s, a, b) ==
    IF a > b THEN 0 ELSE 10 * DecVal(s, a, b - 1) + DigitVal(s[b])

Pow10(n) == CASE n = 0 -> 1 [] n = 1 -> 10 [] n = 2 -> 100 [] n = 3 -> 1000
              [] n = 4 -> 10000 [] n = 5 -> 100000 [] OTHER -> 1000000

\* re.split(r"[\s\t]", s): a cut at EVERY whitespace character
RECURSIVE SplitEachSpace(_, _, _)
SplitEachSpace(s, i, cur) ==
    IF i > Len(s) THEN <<cur>>
    ELSE IF s[i] \in Space THEN <<cur>> \o SplitEachSpace(s, i + 1, <<>>)
    ELSE SplitEachSpace(s, i + 1, Append(cur, s[i]))

\* str.split(): the non-empty tokens between whitespace runs
RECURSIVE Tokens(_, _, _)
Tokens(s, i, cur) ==
    IF i > Len(s) THEN (IF cur = <<>> THEN <<>> ELSE <<cur>>)
    ELSE IF s[i] \in Space
         THEN (IF cur = <<>> THEN <<>> ELSE <<cur>>) \o Tokens(s, i + 1, <<>>)
    ELSE Tokens(s, i + 1, Append(cur, s[i]))
SplitWs(s) == Tokens(s, 1, <<>>)

\* ------------------------------------------------------------------------
\* datetime and datetime.strptime
\* ------------------------------------------------------------------------
\* the value strptime builds on before it reads any field: 1900-01-01 00:00:00
DefaultDate ==
    [kind |-> "datetime", year |-> 1900, month |-> 1, day |-> 1,
     hour |-> 0, minute |-> 0, second |-> 0, microsecond |-> 0]

\* a raised exception, as a value
Raise(type, msg) == [kind |-> type, msg |-> msg]
\* strptime's ValueError, caught by the callers' "except ValueError: continue"
NoMatch == Raise("ValueError", "does not match format")
None == [kind |-> "None"]

IsLeap(y) == (y % 4 = 0 /\ y % 100 # 0) \/ y % 400 = 0
DaysInMonth(y, m) ==
    CASE m \in {4, 6, 9, 11} -> 30
      [] m = 2 -> (IF IsLeap(y) THEN 29 ELSE 28)
      [] OTHER -> 31

\* %a and %b in the C locale, matched case-insensitively
DayNames ==
    {<<"m","o","n">>, <<"t","u","e">>, <<"w","e","d">>, <<"t","h","u">>,
     <<"f","r","i">>, <<"s","a","t">>, <<"s","u","n">>}
MonthNames ==
    << <<"j","a","n">>, <<"f","e","b">>, <<"m","a","r">>, <<"a","p","r">>,
       <<"m","a","y">>, <<"j","u","n">>, <<"j","u","l">>, <<"a","u","g">>,
       <<"s","e","p">>, <<"o","c","t">>, <<"n","o","v">>, <<"d","e","c">> >>

\* the formats of the reader, as lists of directives; " " stands for the
\* \s+ that strptime makes of whitespace in a format
FmtHeaderA == <<"%a", " ", "%b", " ", "%d", " ", "%H", ":", "%M", ":", "%S", " ", "%Y">>
FmtHeaderB == <<"%b", " ", "%d", " ", "%H", ":", "%M", ":", "%S", " ", "%Y">>
FmtHeaderAF ==
    <<"%a", " ", "%b", " ", "%d", " ", "%H", ":", "%M", ":", "%S", ".", "%f", " ", "%Y">>
FmtHeaderBF ==
    <<"%b", " ", "%d", " ", "%H", ":", "%M", ":", "%S", ".", "%f", " ", "%Y">>
HeaderFmts == <<FmtHeaderA, FmtHeaderB, FmtHeaderAF, FmtHeaderBF>>

FmtRowDateF ==
    <<"%Y", "-", "%m", "-", "%d", " ", "%H", ":", "%M", ":", "%S", ".", "%f">>
FmtRowTimeF == <<"%H", ":", "%M", ":", "%S", ".", "%f">>
FmtRowDate == <<"%Y", "-", "%m", "-", "%d", " ", "%H", ":", "%M", ":", "%S">>
FmtRowTime == <<"%H", ":", "%M", ":", "%S">>
FmtRowHyphen == <<"%H", "-", "%M", "-", "%S", "-", "%f">>
RowFmts == <<FmtRowDateF, FmtRowTimeF, FmtRowDate, FmtRowTime, FmtRowHyphen>>

\* widest digit run a numeric directive takes, and the values its regular
\* expression admits (every numeric directive of the formats above is followed
\* by a non-digit or by the end, so the longest run is the only candidate)
MaxWidth(d) == CASE d = "%Y" -> 4 [] d = "%f" -> 6 [] OTHER -> 2
MinWidth(d) == IF d = "%Y" THEN 4 ELSE 1
FieldOk(d, v) ==
    CASE d = "%d" -> v \in 1..31
      [] d = "%m" -> v \in 1..12
      [] d = "%H" -> v \in 0..23
      [] d = "%M" -> v \in 0..59
      [] d = "%S" -> v \in 0..61
      [] OTHER -> TRUE

SetField(acc, d, v, n) ==
    CASE d = "%Y" -> [acc EXCEPT !.year = v]
      [] d = "%m" -> [acc EXCEPT !.month = v]
      [] d = "%d" -> [acc EXCEPT !.day = v]
      [] d = "%H" -> [acc EXCEPT !.hour = v]
      [] d = "%M" -> [acc EXCEPT !.minute = v]
      [] d = "%S" -> [acc EXCEPT !.second = v]
      [] OTHER -> [acc EXCEPT !.microsecond = v * Pow10(6 - n)]

\* datetime(...) rejects what the calendar does not hold
ValidDate(dt) ==
    /\ dt.year >= 1
    /\ dt.day <= DaysInMonth(dt.year, dt.month)
    /\ dt.second <= 59

RECURSIVE StrpFrom(_, _, _, _, _)
StrpFrom(s, pos, fmt, k, acc) ==
    IF k > Len(fmt)
    THEN (IF pos = Len(s) + 1 /\ ValidDate(acc) THEN acc ELSE NoMatch)
    ELSE
      LET d == fmt[k]
      IN  CASE d = " " ->
                 LET n == RunLen(s, pos, Space)
                 IN  IF n = 0 THEN NoMatch
                     ELSE StrpFrom(s, pos + n, fmt, k + 1, acc)
            [] d \in {":", ".", "-"} ->
                 IF pos <= Len(s) /\ s[pos] = d
                 THEN StrpFrom(s, pos + 1, fmt, k + 1, acc)
                 ELSE NoMatch
            [] d = "%a" ->
                 IF pos + 2 <= Len(s) /\ Lowered(Slice(s, pos, pos + 2)) \in DayNames
                 THEN StrpFrom(s, pos + 3, fmt, k + 1, acc)
                 ELSE NoMatch
            [] d = "%b" ->
                 IF pos + 2 <= Len(s)
                    /\ Lowered(Slice(s, pos, pos + 2)) \in Range(MonthNames)
                 THEN LET m == CHOOSE i \in DOMAIN MonthNames :
                                 MonthNames[i] = Lowered(Slice(s, pos, pos + 2))
                      IN  StrpFrom(s, pos + 3, fmt, k + 1, [acc EXCEPT !.month = m])
                 ELSE NoMatch
            [] OTHER ->
                 LET run == RunLen(s, pos, Digit)
                     n == IF run > MaxWidth(d) THEN MaxWidth(d) ELSE run
                     v == DecVal(s, pos, pos + n - 1)
                 IN  IF n < MinWidth(d) \/ ~FieldOk(d, v) THEN NoMatch
                     ELSE StrpFrom(s, pos + n, fmt, k + 1, SetField(acc, d, v, n))

\* datetime.strptime(s, fmt): the datetime, or NoMatch for its ValueError
Strptime(s, fmt) == StrpFrom(s, 1, fmt, 1, DefaultDate)

\* the loop "for fmt in fmts: try: return strptime(s, fmt) except ValueError:
\* continue": the first format that parses, NoMatch when the loop falls through
RECURSIVE FirstFormat(_, _, _)
FirstFormat(s, fmts, k) ==
    IF k > Len(fmts) THEN NoMatch
    ELSE LET r == Strptime(s, fmts[k])
         IN  IF r.kind = "datetime" THEN r ELSE FirstFormat(s, fmts, k + 1)

\* ------------------------------------------------------------------------
\* _parse_header_date
\* ------------------------------------------------------------------------
\* re.sub(r"\s+", " ", s)
RECURSIVE CollapseSpace(_, _)
CollapseSpace(s, i) ==
    IF i > Len(s) THEN <<>>
    ELSE LET n == RunLen(s, i, Space)
         IN  IF n > 0 THEN <<" ">> \o CollapseSpace(s, i + n)
             ELSE <<s[i]>> \o CollapseSpace(s, i + 1)

\* \b between s[i-1] and s[i]
WordBoundary(s, i) ==
    (i - 1 >= 1 /\ s[i - 1] \in WordChar) # (i <= Len(s) /\ s[i] \in WordChar)

\* YearAtEnd with the \s+ of the lookahead lost: (?=\d{4}$)
YearAtEnd_NoSpace(s, j) == RunLen(s, j, Digit) = 4 /\ j + 4 = Len(s) + 1

\* the lookahead (?=\s+\d{4}$) at index j (s is stripped, so $ is the end)
YearAtEnd(s, j) ==
    LET n == RunLen(s, j, Space)
    IN  /\ n >= 1
        /\ RunLen(s, j + n, Digit) = 4
        /\ j + n + 4 = Len(s) + 1

\* length of the match of \b[A-Z]{2,5}\b(?=\s+\d{4}$) at index i, 0 if none:
\* the greedy {2,5} tries 5 letters first
TzAbbrevLen(s, i) ==
    LET fits(n) == /\ RunLen(s, i, Upper) >= n
                   /\ WordBoundary(s, i + n)
                   /\ YearAtEnd(s, i + n)
        cands == {n \in 2..5 : fits(n)}
    IN  IF WordBoundary(s, i) /\ cands # {}
        THEN CHOOSE n \in cands : \A m \in cands : m <= n
        ELSE 0

\* length of the match of \bGMT[+-]\d{1,2}(?::\d{2})?\b at index i, 0 if
\* none: two digits before one, the :MM group before its absence
GmtOffsetLen(s, i) ==
    LET digits(a, n) == a + n - 1 <= Len(s) /\ \A j \in a..(a + n - 1) : s[j] \in Digit
        fits(nd, colon) ==
            /\ digits(i + 4, nd)
            /\ colon => /\ i + 4 + nd <= Len(s)
                        /\ s[i + 4 + nd] = ":"
                        /\ digits(i + 5 + nd, 2)
            /\ WordBoundary(s, i + 4 + nd + (IF colon THEN 3 ELSE 0))
        len(nd, colon) == 4 + nd + (IF colon THEN 3 ELSE 0)
    IN  IF /\ WordBoundary(s, i)
           /\ i + 3 <= Len(s)
           /\ Slice(s, i, i + 2) = <<"G", "M", "T">>
           /\ s[i + 3] \in {"+", "-"}
        THEN CASE fits(2, TRUE) -> len(2, TRUE)
               [] fits(2, FALSE) -> len(2, FALSE)
               [] fits(1, TRUE) -> len(1, TRUE)
               [] fits(1, FALSE) -> len(1, FALSE)
               [] OTHER -> 0
        ELSE 0

\* re.sub(r"\b[A-Z]{2,5}\b(?=\s+\d{4}$)", "", s)
RECURSIVE StripTzAbbrev(_, _)
StripTzAbbrev(s, i) ==
    IF i > Len(s) THEN <<>>
    ELSE LET n == TzAbbrevLen(s, i)
         IN  IF n > 0 THEN StripTzAbbrev(s, i + n)
             ELSE <<s[i]>> \o StripTzAbbrev(s, i + 1)

\* re.sub(r"\bGMT[+-]\d{1,2}(?::\d{2})?\b", "", s)
RECURSIVE StripGmtOffset(_, _)
StripGmtOffset(s, i) ==
    IF i > Len(s) THEN <<>>
    ELSE LET n == GmtOffsetLen(s, i)
         IN  IF n > 0 THEN StripGmtOffset(s, i + n)
             ELSE <<s[i]>> \o StripGmtOffset(s, i + 1)

DatePrefix == <<"d", "a", "t", "e", ":">>

\* the string the formats are tried on
HeaderDateText(date_str) ==
    LET s0 == Strip(date_str)
        s1 == IF StartsWith(Lowered(s0), DatePrefix)
              THEN Strip(Split1(s0, ":")[2]) ELSE s0
        s2 == CollapseSpace(s1, 1)
        s3 == StripTzAbbrev(s2, 1)
    IN  Strip(StripGmtOffset(s3, 1))

HeaderDateError == Raise("ValueError", "Could not parse header date")

parse_header_date(date_str) ==
    LET r == FirstFormat(HeaderDateText(date_str), HeaderFmts, 1)
    IN  IF r.kind = "datetime" THEN r ELSE HeaderDateError

\* ------------------------------------------------------------------------
\* Floats
\* ------------------------------------------------------------------------
\* s + us/10^6 with 0 <= us < 10^6 (the binary rounding of a float is not
\* modelled: a value is carried exactly, to the microsecond)
Num(s, us) == [kind |-> "float", s |-> s, us |-> us]
NaN == [kind |-> "nan"]
Inf(sign) == [kind |-> "inf", sign |-> sign]
Zero == Num(0, 0)
Million == Pow10(6)

FloatError == Raise("ValueError", "could not convert string to float")

\* a - b in IEEE arithmetic
FSub(a, b) ==
    CASE a.kind = "nan" \/ b.kind = "nan" -> NaN
      [] a.kind = "inf" /\ b.kind = "inf" ->
           (IF a.sign = b.sign THEN NaN ELSE a)
      [] a.kind = "inf" -> a
      [] b.kind = "inf" -> Inf(0 - b.sign)
      [] OTHER ->
           IF a.us >= b.us THEN Num(a.s - b.s, a.us - b.us)
           ELSE Num(a.s - b.s - 1, a.us + Million - b.us)

\* the negation of a parsed float
FNeg(x) ==
    CASE x.kind = "inf" -> Inf(0 - x.sign)
      [] x.kind = "float" /\ x.us > 0 -> Num(0 - x.s - 1, Million - x.us)
      [] x.kind = "float" -> Num(0 - x.s, 0)
      [] OTHER -> x

\* digits n1, a point, digits n2 (cut to microseconds), and nothing more
DecimalFrac(u, n1, n2) ==
    IF n1 + n2 >= 1 /\ Len(u) = n1 + 1 + n2
    THEN LET w == IF n2 > 6 THEN 6 ELSE n2
         IN  Num(DecVal(u, 1, n1), DecVal(u, n1 + 2, n1 + 1 + w) * Pow10(6 - w))
    ELSE FloatError

\* u after its n1 leading digits
Decimal(u, n1) ==
    IF n1 + 1 <= Len(u) /\ u[n1 + 1] = "."
    THEN DecimalFrac(u, n1, RunLen(u, n1 + 2, Digit))
    ELSE IF n1 >= 1 /\ Len(u) = n1 THEN Num(DecVal(u, 1, n1), 0)
    ELSE FloatError

Unsigned(u) ==
    CASE Lowered(u) \in {<<"i","n","f">>, <<"i","n","f","i","n","i","t","y">>} -> Inf(1)
      [] Lowered(u) = <<"n","a","n">> -> NaN
      [] OTHER -> Decimal(u, RunLen(u, 1, Digit))

Signed(t) ==
    CASE t # <<>> /\ t[1] = "-" -> FNeg(Unsigned(Tail(t)))
      [] t # <<>> /\ t[1] = "+" -> Unsigned(Tail(t))
      [] OTHER -> Unsigned(t)

\* float(s) for the forms [+-]digits[.digits], [+-].digits, inf, infinity and
\* nan, surrounded by optional whitespace; anything else is a ValueError.
\* (Exponents and digit-group underscores, which float() also reads, and more
\* than six fraction digits are outside the texts this model reads.)
ParseFloat(str) == Signed(Strip(str))

\* every value carries its kind; these are the raised exceptions
IsRaised(v) == v.kind \in {"ValueError", "IndexError", "AttributeError"}

\* a list of floats, as a value
Array(data) == [kind |-> "array", data |-> data]

\* [float(v.replace(",", ".")) for v in tokens]: the list, or the first
\* ValueError
RECURSIVE FloatList(_, _, _)
FloatList(tokens, k, acc) ==
    IF k > Len(tokens) THEN Array(acc)
    ELSE LET x == ParseFloat(CommaToDot(tokens[k]))
         IN  IF IsRaised(x) THEN x ELSE FloatList(tokens, k + 1, Append(acc, x))

\* ------------------------------------------------------------------------
\* The reader's helpers
\* ------------------------------------------------------------------------
\* _parse_float_row: re.split(r"[\s\t]+", s.strip()), the empty parts dropped
parse_float_row(s) == FloatList(SplitWs(Strip(s)), 1, <<>>)

\* _split_stamp
split_stamp(line) ==
    IF TAB \in Range(line)
    THEN LET p == Split1(line, TAB) IN <<Strip(p[1]), Strip(p[2])>>
    ELSE LET parts == SplitEachSpace(Strip(line), 1, <<>>)
         IN  <<Strip(parts[1]), Strip(IF Len(parts) > 1 THEN parts[2] ELSE <<>>)>>

\* the match of __(\d{2})-(\d{2})-(\d{2})-(\d{3}) at index i
FilenameTimeAt(s, i) ==
    LET digs(a, n) == \A j \in a..(a + n - 1) : s[j] \in Digit
    IN  /\ i + 13 <= Len(s)
        /\ s[i] = "_" /\ s[i + 1] = "_"
        /\ digs(i + 2, 2) /\ s[i + 4] = "-"
        /\ digs(i + 5, 2) /\ s[i + 7] = "-"
        /\ digs(i + 8, 2) /\ s[i + 10] = "-"
        /\ digs(i + 11, 3)

\* _parse_filename_time: re.search takes the leftmost match
parse_filename_time(path) ==
    LET hits == {i \in 1..Len(path) : FilenameTimeAt(path, i)}
    IN  IF hits = {} THEN None
        ELSE LET i == CHOOSE h \in hits : \A g \in hits : h <= g
             IN  [kind |-> "int", val |-> DecVal(path, i + 11, i + 13)]

\* dt.hour * 3600 + dt.minute * 60 + dt.second + dt.microsecond / 1e6
SecondsOfDay(dt) ==
    Num(dt.hour * 3600 + dt.minute * 60 + dt.second, dt.microsecond)

\* BareNumberOrNaN without its "except Exception: return np.nan"
BareNumberOrRaise(s) == ParseFloat(CommaToDot(s))

\* the last resort of _parse_row_time: float(stamp.replace(",", ".")), and
\* nan for any exception
BareNumberOrNaN(s) ==
    LET x == ParseFloat(CommaToDot(s))
    IN  IF IsRaised(x) THEN NaN ELSE x

\* _parse_row_time
parse_row_time(stamp) ==
    LET s == Strip(stamp)
        dt == FirstFormat(s, RowFmts, 1)
    IN  IF dt.kind = "datetime" THEN SecondsOfDay(dt) ELSE BareNumberOrNaN(s)

\* ------------------------------------------------------------------------
\* The steps of read
\* ------------------------------------------------------------------------
\* for ln in lines[:40]
HeaderScan == 40

\* index of the first of the top HeaderScan lines that starts with "date:"
\* (case-insensitively), 0 if none
DateLineIndex(ls) ==
    LET top == 1..(IF Len(ls) < HeaderScan THEN Len(ls) ELSE HeaderScan)
        hits == {i \in top : StartsWith(Lowered(ls[i]), DatePrefix)}
    IN  IF hits = {} THEN 0 ELSE CHOOSE i \in hits : \A j \in hits : i <= j

\* dt_header after the header scan: None when no line starts with "date:"
HeaderDate(ls) ==
    LET i == DateLineIndex(ls)
    IN  IF i = 0 THEN None
        ELSE parse_header_date(Strip(Split1(ls[i], ":")[2]))

\* ReplaceMicrosecond as an additive correction: the file name's milliseconds
\* added to the header's fraction of a second
ReplaceMicrosecond_Additive(dt, millis) ==
    [dt EXCEPT !.microsecond = (dt.microsecond + millis * 1000) % Million]

\* dt_header.replace(microsecond=ms * 1000)
ReplaceMicrosecond(dt, millis) == [dt EXCEPT !.microsecond = millis * 1000]

\* days from 1970-01-01 to the civil date y-m-d
DaysFromCivil(y, m, d) ==
    LET yy == IF m <= 2 THEN y - 1 ELSE y
        era == yy \div 400
        yoe == yy - era * 400
        mp == IF m > 2 THEN m - 3 ELSE m + 9
        doy == (153 * mp + 2) \div 5 + d - 1
        doe == yoe * 365 + yoe \div 4 - yoe \div 100 + doy
    IN  era * 146097 + doe - 719468

\* datetime.timestamp() of a naive datetime: read as local time, the local
\* zone being offset seconds ahead of UTC
Timestamp(dt, offset) ==
    Num(DaysFromCivil(dt.year, dt.month, dt.day) * 86400
          + dt.hour * 3600 + dt.minute * 60 + dt.second - offset,
        dt.microsecond)

\* re.search(r"begin\s+spectral\s+data", ln, flags=re.I) matching at index p
WordBegin == <<"b", "e", "g", "i", "n">>
WordSpectral == <<"s", "p", "e", "c", "t", "r", "a", "l">>
WordData == <<"d", "a", "t", "a">>
MarkerAt(ln, p) ==
    LET s == Lowered(ln)
        a == p + Len(WordBegin)
        n1 == RunLen(s, a, Space)
        b == a + n1 + Len(WordSpectral)
        n2 == RunLen(s, b, Space)
    IN  /\ StartsWith(From(s, p), WordBegin)
        /\ n1 >= 1
        /\ StartsWith(From(s, a + n1), WordSpectral)
        /\ n2 >= 1
        /\ StartsWith(From(s, b + n2), WordData)
IsMarker(ln) == \E p \in 1..Len(ln) : MarkerAt(ln, p)

\* re.match(r"^\s*\d", ln)
StartsWithNumber(ln) ==
    LET n == LeadSpace(ln, 1) IN n + 1 <= Len(ln) /\ ln[n + 1] \in Digit

IntVal(v) == [kind |-> "int", val |-> v]
NoSectionError == Raise("ValueError", "No spectral data section found!")
NextLineIndexError == Raise("IndexError", "list index out of range")
NoneTimestampError ==
    Raise("AttributeError", "'NoneType' object has no attribute 'timestamp'")
EmptyWavelengthError ==
    Raise("ValueError", "OceanView: wavelength line is empty or malformed")

\* the loop that sets start_idx, from line i on: the index of the first marker
\* line whose next line starts with a number, None when the loop ends without
\* one, and the IndexError of lines[i + 1] at a marker on the last line
RECURSIVE FindStart(_, _)
FindStart(ls, i) ==
    IF i > Len(ls) THEN None
    ELSE IF IsMarker(ls[i])
         THEN (IF i + 1 > Len(ls) THEN NextLineIndexError
               ELSE IF StartsWithNumber(ls[i + 1]) THEN IntVal(i)
               ELSE FindStart(ls, i + 1))
    ELSE FindStart(ls, i + 1)

\* [ln for ln in lines[start_idx + 2:] if ln.strip()], start being the index
\* of the marker line
IsNonBlank(ln) == Strip(ln) # <<>>
DataLines(ls, start) == SelectSeq(From(ls, start + 2), IsNonBlank)

StackEmptyError == Raise("ValueError", "need at least one array to stack")
StackShapeError == Raise("ValueError", "all input arrays must have the same shape")

\* np_stack taking an empty list for an empty matrix
np_stack_AllowEmpty(rows) ==
    IF \E i \in DOMAIN rows : Len(rows[i]) # Len(rows[1]) THEN StackShapeError
    ELSE [kind |-> "ndarray", data |-> rows]

\* np.stack(spectra)
np_stack(rows) ==
    IF rows = <<>> THEN StackEmptyError
    ELSE IF \E i \in DOMAIN rows : Len(rows[i]) # Len(rows[1]) THEN StackShapeError
    ELSE [kind |-> "ndarray", data |-> rows]

\* np.array(rel_times) - rel_times[0]
Normalize(times) ==
    IF times = <<>> THEN Raise("IndexError", "list index out of range")
    ELSE Array([i \in DOMAIN times |-> FSub(times[i], times[1])])

\* ------------------------------------------------------------------------
\* The files and paths read is run on
\* ------------------------------------------------------------------------
\* A file is described by a record (the variable given) and rendered to text:
\*   date, weekday, tz   the header date, whether a weekday leads it, and the
\*                       timezone decoration written into it
\*   dateline            "good", "iso" (a date in no accepted format), "absent"
\*   pad                 the number of lines before the Date line
\*   ms                  the milliseconds of the path's __HH-MM-SS-mmm segment,
\*                       -1 for a path without one
\*   marker              the shape of the data-section marker (see Body)
\*   k                   the number of wavelength bins and of values per row
\*   rows                the timestamp of each data row, as an index of Stamps
\*   sep                 the separator between a row's timestamp and values
\*   blanks              whether blank lines stand between the rows
MaxRows == 2
MaxWl == 2

Date(y, mo, d, h, mi, s, us) ==
    [kind |-> "datetime", year |-> y, month |-> mo, day |-> d,
     hour |-> h, minute |-> mi, second |-> s, microsecond |-> us]
Dates ==
    {Date(2023, 1, 2, 3, 4, 5, 0),
     Date(2024, 2, 29, 23, 59, 59, 250000),
     Date(2023, 12, 31, 0, 0, 0, 123456)}
TzStyles ==
    {"none", "abbrev_before_year", "abbrev_after_year",
     "gmt_before_year", "gmt_after_year"}
PathMillis == {-1, 0, 946}
UtcOffsets == {0, 3600}
Markers == {"good", "spaced", "absent", "last", "then_text", "second"}

\* row timestamps; 3 and 4 are the same time of day on consecutive dates,
\* 7 matches no row-time format and is no number
Stamps ==
    << <<"0", "0", ":", "0", "0", ":", "0", "1", ".", "5", "0", "0">>,
       <<"0", "0", ":", "0", "0", ":", "0", "3">>,
       <<"2", "0", "2", "3", "-", "0", "1", "-", "0", "2", " ", "0", "0", ":", "0", "0", ":", "0", "1">>,
       <<"2", "0", "2", "3", "-", "0", "1", "-", "0", "3", " ", "0", "0", ":", "0", "0", ":", "0", "1">>,
       <<"1", "3", "-", "4", "2", "-", "5", "2", "-", "9", "4", "6">>,
       <<"2", ",", "5">>,
       <<"a", "b", "c">> >>
BadStamps == {7}
\* stamps without a space inside, which either separator delimits
PlainStamps == {1, 2, 5, 6}
UndatedFormatStamps == {1, 2, 5}
\* the value _parse_row_time owes for each stamp that is a time of day or a
\* number
StampSeconds ==
    [j \in PlainStamps |->
        CASE j = 1 -> Num(1, 500000)
          [] j = 2 -> Num(3, 0)
          [] j = 5 -> Num(13 * 3600 + 42 * 60 + 52, 946000)
          [] OTHER -> Num(2, 500000)]

DefaultFile ==
    [date |-> Date(2023, 1, 2, 3, 4, 5, 0), weekday |-> TRUE, tz |-> "none",
     dateline |-> "good", pad |-> 1, ms |-> -1, utcoffset |-> 0,
     marker |-> "good", k |-> 2, rows |-> <<1, 2>>, sep |-> TAB,
     blanks |-> FALSE]

RowSeqs == UNION {[1..n -> DOMAIN Stamps] : n \in 0..MaxRows}

HeaderTextFiles ==
    {[DefaultFile EXCEPT !.date = d, !.weekday = w, !.tz = z, !.ms = m,
                         !.utcoffset = o] :
        d \in Dates, w \in BOOLEAN, z \in TzStyles, m \in PathMillis,
        o \in UtcOffsets}
HeaderPlaceFiles ==
    {[DefaultFile EXCEPT !.dateline = dl, !.pad = p, !.ms = m] :
        dl \in {"good", "iso", "absent"},
        p \in {0, HeaderScan - 1, HeaderScan}, m \in {-1, 946}}
MarkerFiles ==
    {[DefaultFile EXCEPT !.marker = mk, !.k = k] : mk \in Markers, k \in 1..MaxWl}
RowFiles ==
    {[DefaultFile EXCEPT !.k = k, !.rows = r, !.sep = s, !.blanks = b] :
        k \in 1..MaxWl, r \in RowSeqs, s \in {TAB, " "}, b \in BOOLEAN}
Files == HeaderTextFiles \cup HeaderPlaceFiles \cup MarkerFiles \cup RowFiles

\* n in decimal, w digits wide
RECURSIVE Dec(_, _)
Dec(n, w) == IF w = 0 THEN <<>> ELSE Dec(n \div 10, w - 1) \o <<DigitSeq[(n % 10) + 1]>>

\* ".ffffff" without its trailing zeros, nothing for 0
RECURSIVE DropZeros(_)
DropZeros(s) ==
    IF s # <<>> /\ s[Len(s)] = "0" THEN DropZeros(Slice(s, 1, Len(s) - 1)) ELSE s
FracText(us) == IF us = 0 THEN <<>> ELSE <<".">> \o DropZeros(Dec(us, 6))

MonthText(m) ==
    LET n == MonthNames[m]
    IN  <<UpperSeq[CHOOSE i \in DOMAIN LowerSeq : LowerSeq[i] = n[1]], n[2], n[3]>>

RenderHeaderDate(g) ==
    LET d == g.date
    IN  (IF g.weekday THEN <<"M", "o", "n", " ">> ELSE <<>>)
        \o MonthText(d.month) \o <<" ">> \o Dec(d.day, 2) \o <<" ">>
        \o Dec(d.hour, 2) \o <<":">> \o Dec(d.minute, 2) \o <<":">>
        \o Dec(d.second, 2) \o FracText(d.microsecond)
        \o (CASE g.tz = "abbrev_before_year" -> <<" ", "E", "S", "T">>
              [] g.tz = "gmt_before_year" -> <<" ", "G", "M", "T", "+", "1">>
              [] OTHER -> <<>>)
        \o <<" ">> \o Dec(d.year, 4)
        \o (CASE g.tz = "abbrev_after_year" -> <<" ", "E", "S", "T">>
              [] g.tz = "gmt_after_year" -> <<" ", "G", "M", "T", "-", "0", "5", ":", "3", "0">>
              [] OTHER -> <<>>)

FillerLine == <<"N", "o", "d", "e", "\n">>
MarkerLine == <<">", ">", ">", ">", ">", "B", "e", "g", "i", "n", " ", "S", "p", "e", "c", "t", "r", "a", "l", " ", "D", "a", "t", "a", "<", "<", "<", "<", "<", "\n">>
SpacedMarkerLine == <<"b", "e", "g", "i", "n", " ", " ", "s", "p", "e", "c", "t", "r", "a", "l", "\t", "D", "A", "T", "A", "\n">>
IsoDate == <<"2", "0", "2", "3", "-", "0", "1", "-", "0", "2", " ", "0", "3", ":", "0", "4", ":", "0", "5">>

DateLine(g) ==
    <<"D", "a", "t", "e", ":", " ">>
    \o (IF g.dateline = "iso" THEN IsoDate ELSE RenderHeaderDate(g)) \o <<NL>>

\* tokens joined by single spaces
RECURSIVE Join(_)
Join(tokens) ==
    IF tokens = <<>> THEN <<>>
    ELSE IF Len(tokens) = 1 THEN tokens[1]
    ELSE tokens[1] \o <<" ">> \o Join(Tail(tokens))

\* "401.5 402,5 ...": every second token with a decimal comma
WlToken(t) == <<"4", "0", DigitSeq[t + 1], (IF t % 2 = 0 THEN "," ELSE "."), "5">>
WlLine(k) == Join([t \in 1..k |-> WlToken(t)]) \o <<NL>>

\* the values of the row stamped j: "j.1 j,2 ..."
ValueToken(j, t) == <<DigitSeq[j + 1], (IF t % 2 = 0 THEN "," ELSE "."), DigitSeq[t + 1]>>
Value(j, t) == Num(j, t * 100000)
RowLine(j, k, sep) ==
    Stamps[j] \o <<sep>> \o Join([t \in 1..k |-> ValueToken(j, t)]) \o <<NL>>

RECURSIVE RowLines(_, _)
RowLines(g, i) ==
    IF i > Len(g.rows) THEN <<>>
    ELSE <<RowLine(g.rows[i], g.k, g.sep)>>
         \o (IF g.blanks /\ i = 1 THEN <<<<" ", " ", NL>>>> ELSE <<>>)
         \o RowLines(g, i + 1)

DataSection(g) ==
    <<WlLine(g.k)>> \o (IF g.blanks THEN <<<<NL>>>> ELSE <<>>) \o RowLines(g, 1)

\* "good" and "spaced": a marker line, then the wavelengths; "absent": no
\* marker line; "last": the marker is the last line of the file; "then_text":
\* the marker is followed by a line that starts with a letter; "second": a
\* marker followed by text, then a marker followed by the wavelengths
Body(g) ==
    CASE g.marker = "good" -> <<MarkerLine>> \o DataSection(g)
      [] g.marker = "spaced" -> <<SpacedMarkerLine>> \o DataSection(g)
      [] g.marker = "absent" -> DataSection(g)
      [] g.marker = "last" -> <<MarkerLine>>
      [] g.marker = "then_text" -> <<MarkerLine, FillerLine>> \o DataSection(g)
      [] OTHER -> <<MarkerLine, FillerLine, MarkerLine>> \o DataSection(g)

RenderFile(g) ==
    [i \in 1..g.pad |-> FillerLine]
    \o (IF g.dateline = "absent" THEN <<>> ELSE <<DateLine(g)>>)
    \o <<FillerLine>> \o Body(g)

RenderPath(g) ==
    <<"r", "u", "n">>
    \o (IF g.ms < 0 THEN <<>> ELSE <<"_", "_", "1", "3", "-", "4", "2", "-", "5", "2", "-">> \o Dec(g.ms, 3))
    \o <<".", "t", "x", "t">>

\* ------------------------------------------------------------------------
\* read, step by step
\* ------------------------------------------------------------------------
VARIABLES
    given,          \* the description of the file and path (see above)
    path,           \* str(path_to_file)
    lines,          \* f.readlines()
    utcoffset,      \* the local zone of the process, seconds ahead of UTC
    pc,             \* the step read is at, "returned" or "raised"
    dt_header, ms, tstamp_first, start_idx, wavelengths, data_lines,
    row,            \* the number of data lines the row loop has taken
    stamp_str, vals_str, spectra, rel_times, y_matrix,
    result,         \* the object read returns
    error           \* the exception read raises

vars ==
    <<given, path, lines, utcoffset, pc, dt_header, ms, tstamp_first, start_idx,
      wavelengths, data_lines, row, stamp_str, vals_str, spectra, rel_times,
      y_matrix, result, error>>

inputs == <<given, path, lines, utcoffset>>

Init ==
    /\ given \in Files
    /\ path = RenderPath(given)
    /\ lines = RenderFile(given)
    /\ utcoffset = given.utcoffset
    /\ pc = "header"
    /\ dt_header = None
    /\ ms = None
    /\ tstamp_first = None
    /\ start_idx = None
    /\ wavelengths = None
    /\ data_lines = <<>>
    /\ row = 0
    /\ stamp_str = <<>>
    /\ vals_str = <<>>
    /\ spectra = <<>>
    /\ rel_times = <<>>
    /\ y_matrix = None
    /\ result = None
    /\ error = None

\* an exception leaves read
Raised(e) == pc' = "raised" /\ error' = e

\* lines 45-50: the header date
ParseHeader ==
    /\ pc = "header"
    /\ LET d == HeaderDate(lines)
       IN  IF IsRaised(d)
           THEN Raised(d) /\ UNCHANGED dt_header
           ELSE dt_header' = d /\ pc' = "filename" /\ UNCHANGED error
    /\ UNCHANGED <<inputs, ms, tstamp_first, start_idx, wavelengths, data_lines,
                   row, stamp_str, vals_str, spectra, rel_times, y_matrix, result>>

\* lines 53-55: the milliseconds of the file name replace the header's
\* fraction of a second
RefineWithFilename ==
    /\ pc = "filename"
    /\ ms' = parse_filename_time(path)
    /\ dt_header' = IF ms'.kind # "None" /\ dt_header.kind # "None"
                    THEN ReplaceMicrosecond(dt_header, ms'.val)
                    ELSE dt_header
    /\ pc' = "tstamp"
    /\ UNCHANGED <<inputs, tstamp_first, start_idx, wavelengths, data_lines, row,
                   stamp_str, vals_str, spectra, rel_times, y_matrix, result, error>>

\* line 57: dt_header.timestamp()
ComputeTstamp ==
    /\ pc = "tstamp"
    /\ IF dt_header.kind = "None"
       THEN Raised(NoneTimestampError) /\ UNCHANGED tstamp_first
       ELSE /\ tstamp_first' = Timestamp(dt_header, utcoffset)
            /\ pc' = "section"
            /\ UNCHANGED error
    /\ UNCHANGED <<inputs, dt_header, ms, start_idx, wavelengths, data_lines, row,
                   stamp_str, vals_str, spectra, rel_times, y_matrix, result>>

\* lines 60-67: the data section
FindSpectralData ==
    /\ pc = "section"
    /\ LET s == FindStart(lines, 1)
       IN  CASE IsRaised(s) -> Raised(s) /\ UNCHANGED start_idx
             [] s.kind = "None" -> Raised(NoSectionError) /\ UNCHANGED start_idx
             [] OTHER -> start_idx' = s /\ pc' = "wavelength" /\ UNCHANGED error
    /\ UNCHANGED <<inputs, dt_header, ms, tstamp_first, wavelengths, data_lines,
                   row, stamp_str, vals_str, spectra, rel_times, y_matrix, result>>

\* lines 70-75: the wavelength row and the data lines
ParseWavelengths ==
    /\ pc = "wavelength"
    /\ LET w == parse_float_row(Strip(lines[start_idx.val + 1]))
       IN  CASE IsRaised(w) -> Raised(w) /\ UNCHANGED <<wavelengths, data_lines>>
             [] w.data = <<>> ->
                  Raised(EmptyWavelengthError) /\ UNCHANGED <<wavelengths, data_lines>>
             [] OTHER ->
                  /\ wavelengths' = w
                  /\ data_lines' = DataLines(lines, start_idx.val)
                  /\ pc' = "rows"
                  /\ UNCHANGED error
    /\ UNCHANGED <<inputs, dt_header, ms, tstamp_first, start_idx, row, stamp_str,
                   vals_str, spectra, rel_times, y_matrix, result>>

\* line 83, for the next data line: stamp_str, vals = self._split_stamp(ln)
SplitStamp ==
    /\ pc = "rows"
    /\ row < Len(data_lines)
    /\ LET sp == split_stamp(data_lines[row + 1])
       IN  stamp_str' = sp[1] /\ vals_str' = sp[2]
    /\ row' = row + 1
    /\ pc' = "row_time"
    /\ UNCHANGED <<inputs, dt_header, ms, tstamp_first, start_idx, wavelengths,
                   data_lines, spectra, rel_times, y_matrix, result, error>>

\* lines 85-86: rel_times.append(self._parse_row_time(stamp_str))
ParseRowTime ==
    /\ pc = "row_time"
    /\ LET rel_sec == parse_row_time(stamp_str)
       IN  IF IsRaised(rel_sec)
           THEN Raised(rel_sec) /\ UNCHANGED rel_times
           ELSE /\ rel_times' = Append(rel_times, rel_sec)
                /\ pc' = "row_vals"
                /\ UNCHANGED error
    /\ UNCHANGED <<inputs, dt_header, ms, tstamp_first, start_idx, wavelengths,
                   data_lines, row, stamp_str, vals_str, spectra, y_matrix, result>>

\* lines 87-88: spectra.append([float(v.replace(",", ".")) for v in vals.split()])
ParseRowValues ==
    /\ pc = "row_vals"
    /\ LET vals == FloatList(SplitWs(vals_str), 1, <<>>)
       IN  IF IsRaised(vals)
           THEN Raised(vals) /\ UNCHANGED spectra
           ELSE /\ spectra' = Append(spectra, vals.data)
                /\ pc' = "rows"
                /\ UNCHANGED error
    /\ UNCHANGED <<inputs, dt_header, ms, tstamp_first, start_idx, wavelengths,
                   data_lines, row, stamp_str, vals_str, rel_times, y_matrix, result>>

\* lines 90-91, after the last row
StackAndNormalize ==
    /\ pc = "rows"
    /\ row = Len(data_lines)
    /\ LET y == np_stack(spectra)
           t == Normalize(rel_times)
       IN  CASE IsRaised(y) -> Raised(y) /\ UNCHANGED <<y_matrix, rel_times>>
             [] IsRaised(t) -> Raised(t) /\ y_matrix' = y /\ UNCHANGED rel_times
             [] OTHER ->
                  /\ y_matrix' = y
                  /\ rel_times' = t.data
                  /\ pc' = "wrap"
                  /\ UNCHANGED error
    /\ UNCHANGED <<inputs, dt_header, ms, tstamp_first, start_idx, wavelengths,
                   data_lines, row, stamp_str, vals_str, spectra, result>>

\* lines 94-114: the returned object (its name and class, which no step
\* reads, are left out)
Wrap ==
    /\ pc = "wrap"
    /\ LET xseries == [name |-> "wavelength", unit_name |-> "nm",
                       data |-> wavelengths.data]
           tseries == [name |-> "time", unit_name |-> "s", data |-> rel_times,
                       tstamp |-> tstamp_first]
           field == [name |-> "intensity", unit_name |-> "a.u.",
                     data |-> y_matrix.data, axes_series |-> <<tseries, xseries>>]
       IN  result' = [kind |-> "SpectrumSeries", technique |-> "Optical",
                      tstamp |-> tstamp_first, field |-> field,
                      continuous |-> TRUE]
    /\ pc' = "returned"
    /\ UNCHANGED <<inputs, dt_header, ms, tstamp_first, start_idx, wavelengths,
                   data_lines, row, stamp_str, vals_str, spectra, rel_times,
                   y_matrix, error>>

Next ==
    \/ ParseHeader
    \/ RefineWithFilename
    \/ ComputeTstamp
    \/ FindSpectralData
    \/ ParseWavelengths
    \/ SplitStamp
    \/ ParseRowTime
    \/ ParseRowValues
    \/ StackAndNormalize
    \/ Wrap

Spec == Init /\ [][Next]_vars

Done == pc \in {"returned", "raised"}

\* ------------------------------------------------------------------------
\* Properties
\* ------------------------------------------------------------------------
\* the Date line is among the lines the header scan reads
DateLineScanned == given.dateline # "absent" /\ given.pad < HeaderScan
\* the header holds a date the reader parses
HeaderOk ==
    DateLineScanned /\ given.dateline = "good" /\ given.tz # "abbrev_after_year"
\* the data section is found and its rows are the file's data lines
SectionOk == given.marker \in {"good", "spaced", "second"}

TimeAxis == result.field.axes_series[1]
WavelengthAxis == result.field.axes_series[2]

\* C1, as claimed: a header date with any timezone decoration, an
\* abbreviation after the year included, parses to the timestamp of the date
\* without it.
C1_AnyTzDecorationTolerated ==
    (DateLineScanned /\ given.dateline = "good" /\ pc # "header")
        => /\ error # HeaderDateError
           /\ pc = "filename" => dt_header = given.date

\* C1, amended: an abbreviation before the year, or a GMT offset before or
\* after the year, parses to the timestamp of the date without it; an
\* abbreviation after the year fails with the header-date parse error.
C1_TzBeforeYearTolerated ==
    (DateLineScanned /\ given.dateline = "good" /\ pc # "header")
        => IF given.tz = "abbrev_after_year"
           THEN pc = "raised" /\ error = HeaderDateError
           ELSE /\ error # HeaderDateError
                /\ pc = "filename" => dt_header = given.date

C1_Witness ==
    /\ pc = "filename"
    /\ given.tz = "abbrev_before_year"
    /\ given.date.microsecond # 0
    /\ dt_header = given.date

\* C2: the first relative time of a returned object is exactly zero.
C2_FirstRelTimeZero == pc = "returned" => TimeAxis.data[1] = Zero

\* C3: with a parseable header date and no marker line that is followed by a
\* line starting with a digit (the marker being the last line included), read
\* raises "No spectral data section found!" and nothing else.
C3_NoSectionIsDataFormatError ==
    (HeaderOk /\ given.marker \in {"absent", "last", "then_text"} /\ Done)
        => pc = "raised" /\ error = NoSectionError

\* C4: without a date in an accepted format among the first 40 lines (a Date
\* line in another format, below line 40, or absent), read raises "Could not
\* parse header date".
C4_NoDateIsParseError ==
    ((~DateLineScanned \/ given.dateline = "iso") /\ Done)
        => pc = "raised" /\ error = HeaderDateError

\* C5: _split_stamp cuts a line with a tab at its first tab, and any other
\* line at its first run of whitespace, the remainder being all that follows
\* the run, so that the remainder holds every token but the first (stated
\* for the rows whose timestamp holds no space).
FirstSpace(s) ==
    IF \E i \in DOMAIN s : s[i] \in Space
    THEN CHOOSE i \in DOMAIN s : s[i] \in Space /\ \A j \in 1..(i - 1) : s[j] \notin Space
    ELSE Len(s) + 1
C5_SplitAtFirstWhitespaceRun ==
    (pc = "row_time" /\ given.rows[row] \in PlainStamps) =>
        LET ln == data_lines[row]
            t == Strip(ln)
            cut == IF TAB \in Range(ln) THEN IndexOf(ln, TAB, 1) ELSE 0
        IN  IF cut > 0
            THEN /\ stamp_str = Strip(Slice(ln, 1, cut - 1))
                 /\ vals_str = Strip(From(ln, cut + 1))
            ELSE /\ stamp_str = Slice(t, 1, FirstSpace(t) - 1)
                 /\ vals_str = Strip(From(t, FirstSpace(t)))
                 /\ Len(SplitWs(vals_str)) = Len(SplitWs(ln)) - 1

\* C6: for a well-formed file, the time axis is as long as the matrix has
\* rows and the wavelength axis as long as the matrix has columns.
WellFormed ==
    /\ HeaderOk
    /\ SectionOk
    /\ given.rows # <<>>
    /\ \A i \in DOMAIN given.rows :
          \/ given.rows[i] \in UndatedFormatStamps
          \/ given.rows[i] \in {3, 4} /\ given.sep = TAB
C6_AxesMatchMatrix ==
    (pc = "returned" /\ WellFormed)
        => /\ Len(TimeAxis.data) = Len(result.field.data)
           /\ Len(WavelengthAxis.data) = Len(result.field.data[1])

\* C7: the milliseconds of the path's __HH-MM-SS-mmm segment replace the
\* header's fraction of a second, in dt_header and in the timestamp of the
\* returned object, the other fields staying the header's; without a segment
\* the header's timestamp stands.
EpochOf(d) ==
    CASE d.year = 2023 /\ d.month = 1 -> 1672628645
      [] d.year = 2024 -> 1709251199
      [] OTHER -> 1703980800
ExpectedMicrosecond ==
    IF given.ms >= 0 THEN given.ms * 1000 ELSE given.date.microsecond
C7_FilenameMillisReplaceFraction ==
    /\ (pc \notin {"header", "filename"} /\ dt_header.kind = "datetime")
          => dt_header = [given.date EXCEPT !.microsecond = ExpectedMicrosecond]
    /\ tstamp_first.kind = "float"
          => tstamp_first = Num(EpochOf(given.date) - utcoffset, ExpectedMicrosecond)
    /\ pc = "returned"
          => result.tstamp = tstamp_first /\ TimeAxis.tstamp = tstamp_first

C7_Witness ==
    /\ pc = "returned"
    /\ given.ms = 946
    /\ given.date.microsecond = 250000
    /\ result.tstamp.us = 946000

\* C8: two dated row timestamps one day apart, at the same time of day, are
\* 86400 seconds apart in the returned time axis.
C8_DatedRowsKeepTheirDate ==
    pc = "returned" =>
        \A i, j \in DOMAIN given.rows :
            (given.sep = TAB /\ given.rows[i] = 3 /\ given.rows[j] = 4)
                => FSub(TimeAxis.data[j], TimeAxis.data[i]) = Num(86400, 0)

\* C9: a row whose timestamp matches no format and is no number gets the
\* not-a-number time and read does not fail at it (when read fails in the row
\* loop, the row's time has been taken and the failure is the conversion of a
\* value); the returned object holds one time and one intensity row for each
\* data line, in file order.
C9_UnparsableStampKept ==
    /\ (pc = "row_vals" /\ given.rows[row] \in BadStamps)
          => rel_times[Len(rel_times)] = NaN
    /\ (pc = "raised" /\ row >= 1)
          => /\ given.rows[row] \notin BadStamps
             /\ Len(rel_times) = row
             /\ error = FloatError
    /\ pc = "returned"
          => /\ Len(TimeAxis.data) = Len(given.rows)
             /\ Len(result.field.data) = Len(given.rows)
             /\ \A i \in DOMAIN given.rows :
                   /\ given.rows[i] \in BadStamps => TimeAxis.data[i] = NaN
                   /\ (given.rows[i] \in PlainStamps /\ given.rows[1] \in PlainStamps)
                         => TimeAxis.data[i]
                              = FSub(StampSeconds[given.rows[i]],
                                     StampSeconds[given.rows[1]])
                   /\ given.sep = TAB
                         => result.field.data[i]
                              = [t \in 1..given.k |-> Value(given.rows[i], t)]

C9_Witness ==
    /\ pc = "returned"
    /\ given.blanks
    /\ Len(given.rows) = 2
    /\ given.rows[1] \in PlainStamps
    /\ given.rows[2] \in BadStamps
    /\ TimeAxis.data[2] = NaN

\* C10: read returns no object without time points; a file with a header
\* date, a marker and a wavelength row but no data line makes it raise.
C10_NoEmptySeries ==
    /\ pc = "returned"
          => Len(TimeAxis.data) >= 1 /\ Len(result.field.data) >= 1
    /\ (Done /\ wavelengths.kind = "array" /\ data_lines = <<>>)
          => pc = "raised" /\ error = StackEmptyError

C10_Witness ==
    /\ pc = "raised"
    /\ given.rows = <<>>
    /\ given.blanks
    /\ wavelengths.kind = "array"
    /\ error = StackEmptyError

====
